---- MODULE Spec2Model ----
(***************************************************************************)
(* clusterman/batch/autoscaler_bootstrap.py: wait_for_process and          *)
(* AutoscalerBootstrapBatch.run, as a state machine.                       *)
(*                                                                         *)
(* The supervisord daemon is the environment: every getProcessInfo query   *)
(* returns any state name or fails (OSError at the transport level, or an  *)
(* xmlrpc Fault); start and shutdown commands succeed or fail the same     *)
(* way.  A KeyboardInterrupt may be delivered while run() sits in any      *)
(* blocking call after the daemon was spawned (a sleep, an RPC, the final  *)
(* subprocess wait); it pre-empts that call.  self.running may be cleared  *)
(* from outside at any time.                                               *)
(***************************************************************************)
EXTENDS Integers, Sequences, FiniteSets, TLC

\* Largest instance count of a process group drawn for a run.
MaxProcs == 2
\* The poll counters of one wait_for_process call saturate at this value.
MaxPolls == 3

\* supervisord state names a query may return.
StateNames == {"STOPPED", "STARTING", "RUNNING", "BACKOFF", "EXITED", "FATAL"}
\* Exceptions an RPC may raise: OSError (transport), Fault (any non-OSError xmlrpc error).
RpcErrors == {"OSError", "Fault"}

\* SUPERVISORD_RUNNING_STATES without "STARTING".
SUPERVISORD_RUNNING_STATES_OnlyRunning == {"RUNNING"}

SUPERVISORD_RUNNING_STATES == {"STARTING", "RUNNING"}

\* The process groups run() waits for.
Groups == {"fetch_signals", "run_signals"}

\* Line 68: the AutoscalerBootstrapException raised for a group, by its message.
BootstrapError(name) == "Process " \o name \o " could not start; aborting"

VARIABLES
    pc,                  \* position of run()
    fetch_proc_count,    \* self.fetch_proc_count
    run_proc_count,      \* self.run_proc_count
    running,             \* self.running
    skip_supervisord_cleanup,
    process_name,        \* wait_for_process: parameters of the current call
    num_procs,
    terminal_state,
    wpc,                 \* wait_for_process: position inside the call
    i,                   \* wait_for_process: next index of range(num_procs)
    states,              \* wait_for_process: list built by the comprehension
    queried,             \* names passed to getProcessInfo by the current poll, in order
    polls,               \* polls started by the current call (saturating)
    failedPolls,         \* polls of the current call ended by OSError (saturating)
    sleeps,              \* time.sleep(1) calls completed by the current call (saturating)
    autoscaler_state,    \* statename last returned for "autoscaler"
    exc,                 \* exception in flight / propagated to the caller of run()
    excAt,               \* position of run() where exc was raised
    intAt,               \* positions where a KeyboardInterrupt was delivered
    spawned,             \* supervisord_proc exists
    awaited,             \* completed supervisord_proc.wait() calls
    startGroupCalls,     \* rpc.supervisor.startProcessGroup("run_signals") calls
    startMainCalls,      \* rpc.supervisor.startProcess("autoscaler") calls
    shutdownCalls        \* rpc.supervisor.shutdown() calls

wfpVars == <<process_name, num_procs, terminal_state, wpc, i, states, queried,
             polls, failedPolls, sleeps>>
cfgVars == <<fetch_proc_count, run_proc_count>>
rpcVars == <<startGroupCalls, startMainCalls, shutdownCalls>>
vars == <<pc, fetch_proc_count, run_proc_count, running, skip_supervisord_cleanup,
          process_name, num_procs, terminal_state, wpc, i, states, queried, polls,
          failedPolls, sleeps, autoscaler_state, exc, excAt, intAt, spawned,
          awaited, startGroupCalls, startMainCalls, shutdownCalls>>

Sat(n) == IF n < MaxPolls THEN n + 1 ELSE MaxPolls

\* Positions of run() inside the try block (lines 132-146).
TryPcs == {"fetch_wait", "start_group", "run_wait", "start_main", "loop_check", "loop_sleep"}
WaitPcs == {"fetch_wait", "run_wait"}
LoopPcs == {"loop_check", "loop_sleep"}

Init ==
    /\ pc = "spawn"
    /\ fetch_proc_count \in 0..MaxProcs
    /\ run_proc_count \in 0..MaxProcs
    /\ running = TRUE
    /\ skip_supervisord_cleanup = FALSE
    /\ process_name = "none"
    /\ num_procs = 0
    /\ terminal_state = "none"
    /\ wpc = "idle"
    /\ i = 0
    /\ states = <<>>
    /\ queried = <<>>
    /\ polls = 0
    /\ failedPolls = 0
    /\ sleeps = 0
    /\ autoscaler_state = "none"
    /\ exc = "none"
    /\ excAt = "none"
    /\ intAt = {}
    /\ spawned = FALSE
    /\ awaited = 0
    /\ startGroupCalls = 0
    /\ startMainCalls = 0
    /\ shutdownCalls = 0

(***************************************************************************)
(* wait_for_process                                                        *)
(***************************************************************************)

\* InstanceName counting instances from 1.
InstanceName_OneBased(name, k) == name \o ":" \o name \o "_" \o ToString(k + 1)

\* Line 59: f"{process_name}:{process_name}_{i}".
InstanceName(name, k) == name \o ":" \o name \o "_" \o ToString(k)

\* Entry of wait_for_process(rpc, name, num_procs=n, terminal_state=t): the
\* first iteration of `while True` starts the first poll.
EnterWait(name, n, t) ==
    /\ process_name' = name
    /\ num_procs' = n
    /\ terminal_state' = t
    /\ wpc' = "poll"
    /\ i' = 0
    /\ states' = <<>>
    /\ queried' = <<>>
    /\ polls' = 1
    /\ failedPolls' = 0
    /\ sleeps' = 0

\* AnyFatal with `any` mistaken for `all`.
AnyFatal_AllFatal(sts) == Len(sts) > 0 /\ \A k \in 1..Len(sts) : sts[k] = "FATAL"

\* Line 67: any(state == "FATAL" for state in states).
AnyFatal(sts) == \E k \in 1..Len(sts) : sts[k] = "FATAL"

\* AllTerminal with `all` mistaken for `any`.
AllTerminal_Any(sts, t) == \E k \in 1..Len(sts) : sts[k] = t

\* Line 69: all(state == terminal_state for state in states).
AllTerminal(sts, t) == \A k \in 1..Len(sts) : sts[k] = t

\* Classify hardened the wrong way: an instance that EXITED while the group is
\* awaited RUNNING counts as a failure.
Classify_UnexpectedExitFails(sts, t) ==
    IF AnyFatal(sts) \/ (t = "RUNNING" /\ \E k \in 1..Len(sts) : sts[k] = "EXITED")
    THEN "raise"
    ELSE IF AllTerminal(sts, t) THEN "break"
    ELSE "sleep"

\* Classify with an emptiness test added: `elif states and all(...)`.
Classify_EmptyPending(sts, t) ==
    IF AnyFatal(sts) THEN "raise"
    ELSE IF Len(sts) > 0 /\ AllTerminal(sts, t) THEN "break"
    ELSE "sleep"

\* Lines 67-71: what one complete poll leads to.
Classify(sts, t) ==
    IF AnyFatal(sts) THEN "raise"
    ELSE IF AllTerminal(sts, t) THEN "break"
    ELSE "sleep"

\* Line 59, one element of the comprehension: the query for index i answers.
WfpQueryOk ==
    /\ pc \in WaitPcs /\ wpc = "poll" /\ i < num_procs
    /\ queried' = Append(queried, InstanceName(process_name, i))
    /\ \E s \in StateNames : states' = Append(states, s)
    /\ i' = i + 1
    /\ UNCHANGED <<pc, cfgVars, running, skip_supervisord_cleanup, process_name,
                   num_procs, terminal_state, wpc, polls, failedPolls, sleeps,
                   autoscaler_state, exc, excAt, intAt, spawned, awaited, rpcVars>>

\* WfpQueryOSError looking at the answers already received: a FATAL among them
\* is raised instead of retried.
WfpQueryOSError_FatalFirst ==
    /\ pc \in WaitPcs /\ wpc = "poll" /\ i < num_procs
    /\ queried' = Append(queried, InstanceName(process_name, i))
    /\ failedPolls' = Sat(failedPolls)
    /\ IF AnyFatal(states)
       THEN /\ wpc' = "raised"
            /\ exc' = BootstrapError(process_name)
            /\ excAt' = pc
            /\ pc' = "finally"
       ELSE /\ wpc' = "sleep_err"
            /\ UNCHANGED <<pc, exc, excAt>>
    /\ UNCHANGED <<cfgVars, running, skip_supervisord_cleanup, process_name,
                   num_procs, terminal_state, i, states, polls, sleeps,
                   autoscaler_state, intAt, spawned, awaited, rpcVars>>

\* WfpQueryOSError without the except clause: the OSError leaves the call.
WfpQueryOSError_Raise ==
    /\ pc \in WaitPcs /\ wpc = "poll" /\ i < num_procs
    /\ queried' = Append(queried, InstanceName(process_name, i))
    /\ wpc' = "raised"
    /\ exc' = "OSError"
    /\ excAt' = pc
    /\ pc' = "finally"
    /\ failedPolls' = Sat(failedPolls)
    /\ UNCHANGED <<cfgVars, running, skip_supervisord_cleanup, process_name,
                   num_procs, terminal_state, i, states, polls, sleeps,
                   autoscaler_state, intAt, spawned, awaited, rpcVars>>

\* Lines 62-65: the query for index i raises OSError; the comprehension is
\* abandoned and the call goes to time.sleep(1), then `continue`.
WfpQueryOSError ==
    /\ pc \in WaitPcs /\ wpc = "poll" /\ i < num_procs
    /\ queried' = Append(queried, InstanceName(process_name, i))
    /\ wpc' = "sleep_err"
    /\ failedPolls' = Sat(failedPolls)
    /\ UNCHANGED <<pc, cfgVars, running, skip_supervisord_cleanup, process_name,
                   num_procs, terminal_state, i, states, polls, sleeps,
                   autoscaler_state, exc, excAt, intAt, spawned, awaited, rpcVars>>

\* Line 59 raising anything that is not OSError: not caught by wait_for_process,
\* it leaves the call and the try block of run().
WfpQueryFault ==
    /\ pc \in WaitPcs /\ wpc = "poll" /\ i < num_procs
    /\ queried' = Append(queried, InstanceName(process_name, i))
    /\ wpc' = "raised"
    /\ exc' = "Fault"
    /\ excAt' = pc
    /\ pc' = "finally"
    /\ UNCHANGED <<cfgVars, running, skip_supervisord_cleanup, process_name,
                   num_procs, terminal_state, i, states, polls, failedPolls, sleeps,
                   autoscaler_state, intAt, spawned, awaited, rpcVars>>

\* WfpClassify with the FATAL case logged instead of raised: the caller goes on
\* to the next stage.
WfpClassify_ContinueOnFatal ==
    /\ pc \in WaitPcs /\ wpc = "poll" /\ i = num_procs
    /\ LET c == Classify(states, terminal_state) IN
         \/ /\ c \in {"raise", "break"}
            /\ wpc' = IF c = "raise" THEN "raised" ELSE "returned"
            /\ pc' = IF pc = "fetch_wait" THEN "start_group" ELSE "start_main"
         \/ /\ c = "sleep"
            /\ wpc' = "sleep"
            /\ UNCHANGED pc
    /\ UNCHANGED <<cfgVars, running, skip_supervisord_cleanup, process_name,
                   num_procs, terminal_state, i, states, queried, polls, failedPolls,
                   sleeps, autoscaler_state, exc, excAt, intAt, spawned, awaited,
                   rpcVars>>

\* Lines 67-71 after the comprehension completed (all num_procs queries answered).
WfpClassify ==
    /\ pc \in WaitPcs /\ wpc = "poll" /\ i = num_procs
    /\ LET c == Classify(states, terminal_state) IN
         \/ /\ c = "raise"
            /\ wpc' = "raised"
            /\ exc' = BootstrapError(process_name)
            /\ excAt' = pc
            /\ pc' = "finally"
         \/ /\ c = "break"
            /\ wpc' = "returned"
            /\ pc' = IF pc = "fetch_wait" THEN "start_group" ELSE "start_main"
            /\ UNCHANGED <<exc, excAt>>
         \/ /\ c = "sleep"
            /\ wpc' = "sleep"
            /\ UNCHANGED <<pc, exc, excAt>>
    /\ UNCHANGED <<cfgVars, running, skip_supervisord_cleanup, process_name,
                   num_procs, terminal_state, i, states, queried, polls, failedPolls, sleeps,
                   autoscaler_state, intAt, spawned, awaited, rpcVars>>

\* WfpSleep with a retry budget: after the second failed poll the wait gives up.
WfpSleep_GiveUp ==
    /\ pc \in WaitPcs /\ wpc \in {"sleep", "sleep_err"}
    /\ IF failedPolls >= 2
       THEN /\ wpc' = "raised"
            /\ exc' = BootstrapError(process_name)
            /\ excAt' = pc
            /\ pc' = "finally"
            /\ UNCHANGED <<i, states, queried, polls, sleeps>>
       ELSE /\ wpc' = "poll"
            /\ i' = 0
            /\ states' = <<>>
            /\ queried' = <<>>
            /\ polls' = Sat(polls)
            /\ sleeps' = Sat(sleeps)
            /\ UNCHANGED <<pc, exc, excAt>>
    /\ UNCHANGED <<cfgVars, running, skip_supervisord_cleanup, process_name,
                   num_procs, terminal_state, failedPolls,
                   autoscaler_state, intAt, spawned, awaited, rpcVars>>

\* Lines 64-65 and 71: time.sleep(1) returns and the next iteration starts a new
\* poll with a fresh comprehension.
WfpSleep ==
    /\ pc \in WaitPcs /\ wpc \in {"sleep", "sleep_err"}
    /\ wpc' = "poll"
    /\ i' = 0
    /\ states' = <<>>
    /\ queried' = <<>>
    /\ polls' = Sat(polls)
    /\ sleeps' = Sat(sleeps)
    /\ UNCHANGED <<pc, cfgVars, running, skip_supervisord_cleanup, process_name,
                   num_procs, terminal_state, failedPolls,
                   autoscaler_state, exc, excAt, intAt, spawned, awaited, rpcVars>>

(***************************************************************************)
(* AutoscalerBootstrapBatch.run                                            *)
(***************************************************************************)

\* Lines 122-127: subprocess.Popen spawns supervisord.
Spawn ==
    /\ pc = "spawn"
    /\ spawned' = TRUE
    /\ pc' = "presleep"
    /\ UNCHANGED <<cfgVars, running, skip_supervisord_cleanup, wfpVars,
                   autoscaler_state, exc, excAt, intAt, awaited, rpcVars>>

\* PreSleep with terminal_state="EXITED" left out of the call (the default applies).
PreSleep_DefaultTerminal ==
    /\ pc = "presleep"
    /\ skip_supervisord_cleanup' = FALSE
    /\ pc' = "fetch_wait"
    /\ EnterWait("fetch_signals", fetch_proc_count, "RUNNING")
    /\ UNCHANGED <<cfgVars, running, autoscaler_state, exc, excAt, intAt,
                   spawned, awaited, rpcVars>>

\* Lines 128-137: time.sleep(1) returns, the proxy is opened, the flag is
\* initialised, the try block is entered and wait_for_process is called for
\* the fetch group.
PreSleep ==
    /\ pc = "presleep"
    /\ skip_supervisord_cleanup' = FALSE
    /\ pc' = "fetch_wait"
    /\ EnterWait("fetch_signals", fetch_proc_count, "EXITED")
    /\ UNCHANGED <<cfgVars, running, autoscaler_state, exc, excAt, intAt,
                   spawned, awaited, rpcVars>>

\* StartGroup with the wait of line 139 left out.
StartGroup_NoWait ==
    /\ pc = "start_group"
    /\ startGroupCalls' = startGroupCalls + 1
    /\ pc' = "start_main"
    /\ UNCHANGED <<cfgVars, running, skip_supervisord_cleanup, wfpVars,
                   autoscaler_state, exc, excAt, intAt, spawned, awaited,
                   startMainCalls, shutdownCalls>>

\* Lines 138-139: startProcessGroup("run_signals") is accepted, and
\* wait_for_process is called for the run group with the default
\* terminal_state "RUNNING".
StartGroup ==
    /\ pc = "start_group"
    /\ startGroupCalls' = startGroupCalls + 1
    /\ pc' = "run_wait"
    /\ EnterWait("run_signals", run_proc_count, "RUNNING")
    /\ UNCHANGED <<cfgVars, running, skip_supervisord_cleanup, autoscaler_state,
                   exc, excAt, intAt, spawned, awaited, startMainCalls, shutdownCalls>>

\* Line 138 raising: the command was sent and the call failed.
StartGroupError ==
    /\ pc = "start_group"
    /\ startGroupCalls' = startGroupCalls + 1
    /\ \E e \in RpcErrors : exc' = e
    /\ excAt' = pc
    /\ pc' = "finally"
    /\ UNCHANGED <<cfgVars, running, skip_supervisord_cleanup, wfpVars,
                   autoscaler_state, intAt, spawned, awaited, startMainCalls,
                   shutdownCalls>>

\* Line 140: startProcess("autoscaler") is accepted; the while loop of line 142
\* is next.
StartMain ==
    /\ pc = "start_main"
    /\ startMainCalls' = startMainCalls + 1
    /\ pc' = "loop_check"
    /\ UNCHANGED <<cfgVars, running, skip_supervisord_cleanup, wfpVars,
                   autoscaler_state, exc, excAt, intAt, spawned, awaited,
                   startGroupCalls, shutdownCalls>>

\* Line 140 raising.
StartMainError ==
    /\ pc = "start_main"
    /\ startMainCalls' = startMainCalls + 1
    /\ \E e \in RpcErrors : exc' = e
    /\ excAt' = pc
    /\ pc' = "finally"
    /\ UNCHANGED <<cfgVars, running, skip_supervisord_cleanup, wfpVars,
                   autoscaler_state, intAt, spawned, awaited, startGroupCalls,
                   shutdownCalls>>

\* LoopExitFlag treating the stop request like an interrupt: the flag of line 149 is set.
LoopExitFlag_SkipCleanup ==
    /\ pc = "loop_check"
    /\ ~running
    /\ skip_supervisord_cleanup' = TRUE
    /\ pc' = "finally"
    /\ UNCHANGED <<cfgVars, running, wfpVars,
                   autoscaler_state, exc, excAt, intAt, spawned, awaited, rpcVars>>

\* Line 143: self.running is false; `and` short-circuits, no query is made and
\* the loop ends.
LoopExitFlag ==
    /\ pc = "loop_check"
    /\ ~running
    /\ pc' = "finally"
    /\ UNCHANGED <<cfgVars, running, skip_supervisord_cleanup, wfpVars,
                   autoscaler_state, exc, excAt, intAt, spawned, awaited, rpcVars>>

\* Lines 143-146: self.running is true and getProcessInfo("autoscaler") answers.
LoopQueryOk ==
    /\ pc = "loop_check"
    /\ running
    /\ \E s \in StateNames :
         /\ autoscaler_state' = s
         /\ pc' = IF s \in SUPERVISORD_RUNNING_STATES THEN "loop_sleep" ELSE "finally"
    /\ UNCHANGED <<cfgVars, running, skip_supervisord_cleanup, wfpVars,
                   exc, excAt, intAt, spawned, awaited, rpcVars>>

\* Line 144 raising: nothing in run() catches it but the finally clause.
LoopQueryError ==
    /\ pc = "loop_check"
    /\ running
    /\ \E e \in RpcErrors : exc' = e
    /\ excAt' = pc
    /\ pc' = "finally"
    /\ UNCHANGED <<cfgVars, running, skip_supervisord_cleanup, wfpVars,
                   autoscaler_state, intAt, spawned, awaited, rpcVars>>

\* Line 146: time.sleep(5) returns.
LoopSleep ==
    /\ pc = "loop_sleep"
    /\ pc' = "loop_check"
    /\ UNCHANGED <<cfgVars, running, skip_supervisord_cleanup, wfpVars,
                   autoscaler_state, exc, excAt, intAt, spawned, awaited, rpcVars>>

\* Where control goes when the finally clause (and the with block) is left:
\* with an exception in flight lines 155-156 are skipped and run() raises.
AfterFinally(e) == IF e = "none" THEN "final_wait" ELSE "done"

\* FinallyShutdown followed by polling the main process until it has stopped.
FinallyShutdown_ThenPoll ==
    /\ pc = "finally"
    /\ ~skip_supervisord_cleanup
    /\ shutdownCalls' = shutdownCalls + 1
    /\ pc' = IF exc = "none" THEN "loop_check" ELSE "done"
    /\ UNCHANGED <<cfgVars, running, skip_supervisord_cleanup, wfpVars,
                   autoscaler_state, exc, excAt, intAt, spawned, awaited,
                   startGroupCalls, startMainCalls>>

\* Lines 150-153 with skip_supervisord_cleanup false: shutdown() is accepted.
FinallyShutdown ==
    /\ pc = "finally"
    /\ ~skip_supervisord_cleanup
    /\ shutdownCalls' = shutdownCalls + 1
    /\ pc' = AfterFinally(exc)
    /\ UNCHANGED <<cfgVars, running, skip_supervisord_cleanup, wfpVars,
                   autoscaler_state, exc, excAt, intAt, spawned, awaited,
                   startGroupCalls, startMainCalls>>

\* Line 153 raising: the new exception replaces the one in flight.
FinallyShutdownError ==
    /\ pc = "finally"
    /\ ~skip_supervisord_cleanup
    /\ shutdownCalls' = shutdownCalls + 1
    /\ \E e \in RpcErrors : exc' = e
    /\ excAt' = pc
    /\ pc' = "done"
    /\ UNCHANGED <<cfgVars, running, skip_supervisord_cleanup, wfpVars,
                   autoscaler_state, intAt, spawned, awaited,
                   startGroupCalls, startMainCalls>>

\* FinallySkip with the test of line 152 left out: shutdown() is always called.
FinallySkip_Shutdown ==
    /\ pc = "finally"
    /\ skip_supervisord_cleanup
    /\ shutdownCalls' = shutdownCalls + 1
    /\ pc' = AfterFinally(exc)
    /\ UNCHANGED <<cfgVars, running, skip_supervisord_cleanup, wfpVars,
                   autoscaler_state, exc, excAt, intAt, spawned, awaited,
                   startGroupCalls, startMainCalls>>

\* Lines 150-152 with skip_supervisord_cleanup true: no call is made.
FinallySkip ==
    /\ pc = "finally"
    /\ skip_supervisord_cleanup
    /\ pc' = AfterFinally(exc)
    /\ UNCHANGED <<cfgVars, running, skip_supervisord_cleanup, wfpVars,
                   autoscaler_state, exc, excAt, intAt, spawned, awaited, rpcVars>>

\* Lines 155-156: supervisord_proc.wait() returns and run() returns.
FinalWait ==
    /\ pc = "final_wait"
    /\ awaited' = awaited + 1
    /\ pc' = "done"
    /\ UNCHANGED <<cfgVars, running, skip_supervisord_cleanup, wfpVars,
                   autoscaler_state, exc, excAt, intAt, spawned, rpcVars>>

\* InterruptInTry with the assignment of line 149 left out.
InterruptInTry_NoSkip ==
    /\ pc \in TryPcs
    /\ intAt' = intAt \cup {pc}
    /\ wpc' = IF pc \in WaitPcs THEN "raised" ELSE wpc
    /\ pc' = "finally"
    /\ UNCHANGED <<cfgVars, running, skip_supervisord_cleanup, process_name,
                   num_procs, terminal_state, i, states, queried, polls, failedPolls, sleeps,
                   autoscaler_state, exc, excAt, spawned, awaited, rpcVars>>

\* InterruptInTry without the except clause: the KeyboardInterrupt stays in flight.
InterruptInTry_Propagate ==
    /\ pc \in TryPcs
    /\ intAt' = intAt \cup {pc}
    /\ exc' = "KeyboardInterrupt"
    /\ excAt' = pc
    /\ wpc' = IF pc \in WaitPcs THEN "raised" ELSE wpc
    /\ pc' = "finally"
    /\ UNCHANGED <<cfgVars, running, skip_supervisord_cleanup, process_name,
                   num_procs, terminal_state, i, states, queried, polls, failedPolls, sleeps,
                   autoscaler_state, spawned, awaited, rpcVars>>

\* Lines 147-149: a KeyboardInterrupt delivered inside the try block is caught;
\* the call it pre-empted is not made.
InterruptInTry ==
    /\ pc \in TryPcs
    /\ intAt' = intAt \cup {pc}
    /\ skip_supervisord_cleanup' = TRUE
    /\ wpc' = IF pc \in WaitPcs THEN "raised" ELSE wpc
    /\ pc' = "finally"
    /\ UNCHANGED <<cfgVars, running, process_name, num_procs, terminal_state,
                   i, states, queried, polls, failedPolls, sleeps,
                   autoscaler_state, exc, excAt, spawned, awaited, rpcVars>>

\* A KeyboardInterrupt delivered outside the try block (the sleep of line 128,
\* the shutdown call of line 153, the wait of line 156) propagates to the
\* caller of run().
InterruptOutsideTry ==
    /\ \/ pc \in {"presleep", "final_wait"}
       \/ pc = "finally" /\ ~skip_supervisord_cleanup
    /\ intAt' = intAt \cup {pc}
    /\ exc' = "KeyboardInterrupt"
    /\ excAt' = pc
    /\ pc' = "done"
    /\ UNCHANGED <<cfgVars, running, skip_supervisord_cleanup, wfpVars,
                   autoscaler_state, spawned, awaited, rpcVars>>

\* self.running is cleared from outside (BatchDaemon's stop request).
StopRequested ==
    /\ pc # "done"
    /\ running
    /\ running' = FALSE
    /\ UNCHANGED <<pc, cfgVars, skip_supervisord_cleanup, wfpVars,
                   autoscaler_state, exc, excAt, intAt, spawned, awaited, rpcVars>>

Next ==
    \/ Spawn
    \/ PreSleep
    \/ WfpQueryOk
    \/ WfpQueryOSError
    \/ WfpQueryFault
    \/ WfpClassify
    \/ WfpSleep
    \/ StartGroup
    \/ StartGroupError
    \/ StartMain
    \/ StartMainError
    \/ LoopExitFlag
    \/ LoopQueryOk
    \/ LoopQueryError
    \/ LoopSleep
    \/ FinallyShutdown
    \/ FinallyShutdownError
    \/ FinallySkip
    \/ FinalWait
    \/ InterruptInTry
    \/ InterruptOutsideTry
    \/ StopRequested

Spec == Init /\ [][Next]_vars

(***************************************************************************)
(* Properties                                                              *)
(***************************************************************************)

\* Positions before the shutdown call where an interrupt can be delivered.
PreShutdownPcs == TryPcs \cup {"presleep", "finally"}

C2_ShutdownAtMostOnceNeverOnInterrupt ==
    /\ shutdownCalls <= 1
    /\ (intAt \cap TryPcs # {}) => shutdownCalls = 0

C2_Witness ==
    /\ pc = "done"
    /\ intAt = {"loop_sleep"}
    /\ startMainCalls = 1
    /\ shutdownCalls = 0

\* C3: whenever startProcessGroup("run_signals") is issued, the wait on
\* fetch_signals has just returned from a poll in which every instance
\* 0..fetch_proc_count-1 reported EXITED.
C3_RunGroupStartAfterFetchExited ==
    [][startGroupCalls' # startGroupCalls =>
         /\ process_name = "fetch_signals"
         /\ wpc = "returned"
         /\ Len(states) = fetch_proc_count
         /\ \A k \in 1..fetch_proc_count : states[k] = "EXITED"]_vars

C3_Witness ==
    /\ startGroupCalls = 1
    /\ pc = "run_wait"
    /\ fetch_proc_count = 2

\* C4: whenever startProcess("autoscaler") is issued, the run group's start
\* was issued before and the wait on run_signals entered after it has just
\* returned from a poll in which every instance 0..run_proc_count-1 reported
\* RUNNING; the step that issues it goes straight to the steady-state loop (or
\* to the finally clause when the call raises) without querying the autoscaler
\* and without entering another wait.
C4_MainStartAfterRunGroupRunning ==
    [][startMainCalls' # startMainCalls =>
         /\ startGroupCalls >= 1
         /\ process_name = "run_signals"
         /\ wpc = "returned"
         /\ Len(states) = run_proc_count
         /\ \A k \in 1..run_proc_count : states[k] = "RUNNING"
         /\ pc' = IF exc' = "none" THEN "loop_check" ELSE "finally"
         /\ UNCHANGED <<autoscaler_state, wfpVars>>]_vars

C4_Witness ==
    /\ startMainCalls = 1
    /\ pc = "loop_check"
    /\ run_proc_count = 2
    /\ autoscaler_state = "none"

\* C5 as stated: a poll in which some instance has reported FATAL is never
\* followed by a sleep and a retry.
C5_FatalNeverRetried ==
    ~(/\ pc \in WaitPcs
      /\ wpc \in {"sleep", "sleep_err"}
      /\ \E k \in 1..Len(states) : states[k] = "FATAL")

\* C5 amended: when every query of a poll was answered and some instance
\* reported FATAL, the wait raises the bootstrap error naming the group at the
\* end of that poll, without sleeping or polling again, whatever the other
\* instances reported.
C5_FatalInCompletePollRaises ==
    [][(/\ pc \in WaitPcs /\ wpc = "poll" /\ i = num_procs
        /\ \E k \in 1..Len(states) : states[k] = "FATAL"
        /\ wpc' # wpc /\ intAt' = intAt) =>
         /\ exc' = "Process " \o process_name \o " could not start; aborting"
         /\ process_name = (IF pc = "fetch_wait" THEN "fetch_signals" ELSE "run_signals")
         /\ excAt' = pc
         /\ pc' = "finally"
         /\ wpc' = "raised"
         /\ polls' = polls /\ sleeps' = sleeps]_vars

C5_Witness ==
    /\ exc = "Process run_signals could not start; aborting"
    /\ states = <<"FATAL", "STARTING">>
    /\ sleeps = 0

\* C6: the wait has returned only if the poll it returned from has an answer
\* for every index in [0, num_procs) and each is the terminal state; a complete
\* poll in which each answer is the terminal state makes it return, without a
\* further sleep; returning from the first poll, it has not slept.
C6_ReturnsIffAllTerminal ==
    /\ [](wpc = "returned" =>
            /\ Len(states) = num_procs
            /\ \A k \in 1..num_procs : states[k] = terminal_state
            /\ terminal_state # "FATAL"
            /\ (polls = 1 => sleeps = 0))
    /\ [][(/\ pc \in WaitPcs /\ wpc = "poll" /\ i = num_procs
           /\ \A k \in 1..Len(states) : states[k] = terminal_state
           /\ wpc' # wpc /\ intAt' = intAt) =>
            /\ wpc' = "returned"
            /\ exc' = "none"
            /\ sleeps' = sleeps /\ polls' = polls]_vars
    /\ [][(wpc' = "returned" /\ wpc # "returned") =>
            /\ pc \in WaitPcs /\ wpc = "poll" /\ i = num_procs
            /\ \A k \in 1..num_procs : states[k] = terminal_state]_vars

C6_Witness ==
    /\ pc = "start_group"
    /\ wpc = "returned"
    /\ states = <<"EXITED", "EXITED">>
    /\ polls = 1
    /\ sleeps = 0

\* C7: an OSError on a status query never leaves wait_for_process: after it the
\* call is sleeping with no exception in flight, and a wait that returned after
\* N such failed polls returned normally from an all-terminal poll.
C7_ConnectivityErrorNeverFailsWait ==
    /\ ~(exc = "OSError" /\ excAt \in WaitPcs)
    /\ (pc \in WaitPcs /\ wpc = "sleep_err") => (exc = "none" /\ failedPolls >= 1)
    /\ (pc \in {"start_group", "start_main"} /\ wpc = "returned") =>
          /\ exc = "none"
          /\ \A k \in 1..num_procs : states[k] = terminal_state

C7_Witness ==
    /\ pc = "start_group"
    /\ wpc = "returned"
    /\ failedPolls = 2
    /\ states = <<"EXITED", "EXITED">>
    /\ exc = "none"

\* C8: no run ends in error because a status query (in a stage wait or in the
\* steady-state poll) hit a transport-level I/O error.
C8_ConnectivityNeverFailsRun ==
    ~(/\ pc = "done"
      /\ exc = "OSError"
      /\ excAt \in WaitPcs \cup {"loop_check"})

\* C9 as stated: once the try block has been left, shutdown() has been omitted
\* only if an interrupt was received in the steady-state poll loop.
C9_ShutdownOmittedOnlyOnLoopInterrupt ==
    (/\ pc \in {"final_wait", "done"}
     /\ "presleep" \notin intAt
     /\ shutdownCalls = 0) => intAt \cap LoopPcs # {}

\* C9 amended: shutdown() is omitted exactly when an external interrupt was
\* received before the shutdown call was made, in the startup sequence as well
\* as in the steady-state loop; on every exit without one it is issued once.
C9_ShutdownOmittedIffInterrupted ==
    pc \in {"final_wait", "done"} =>
        /\ shutdownCalls \in {0, 1}
        /\ shutdownCalls = 0 <=> intAt \cap PreShutdownPcs # {}

C9_Witness ==
    /\ pc = "done"
    /\ intAt = {"run_wait"}
    /\ startGroupCalls = 1
    /\ startMainCalls = 0
    /\ shutdownCalls = 0

\* C10: an interrupt delivered in the steady-state loop takes run() out of the
\* loop to the finally clause with the flag set; a run whose only interrupt
\* was that one ends with no shutdown() call, the daemon's exit awaited once,
\* and no exception raised to the caller.
C10_LoopInterruptSkipsShutdownStillWaits ==
    /\ [][(pc \in LoopPcs /\ intAt' # intAt) =>
            /\ pc' = "finally"
            /\ skip_supervisord_cleanup'
            /\ exc' = "none"]_vars
    /\ []((pc = "done" /\ intAt # {} /\ intAt \subseteq LoopPcs) =>
            /\ shutdownCalls = 0
            /\ awaited = 1
            /\ exc = "none")

C10_Witness ==
    /\ pc = "done"
    /\ intAt = {"loop_check"}
    /\ autoscaler_state = "RUNNING"
    /\ shutdownCalls = 0
    /\ awaited = 1
    /\ exc = "none"

\* C11: when self.running is false at a loop check, the loop ends at that check
\* without another query; a run that left the loop that way with the main
\* process last seen RUNNING (no interrupt, shutdown() accepted) has called
\* shutdown() exactly once, awaited the daemon's exit once and returned
\* without error.
C11_StopFlagExitsLoopAndShutsDown ==
    /\ [][(pc = "loop_check" /\ ~running /\ pc' # pc /\ intAt' = intAt) =>
            /\ pc' = "finally"
            /\ ~skip_supervisord_cleanup'
            /\ exc' = "none"
            /\ UNCHANGED <<autoscaler_state, rpcVars>>]_vars
    /\ []((/\ pc = "done"
           /\ autoscaler_state = "RUNNING"
           /\ intAt = {}
           /\ excAt \notin {"loop_check", "finally"}) =>
            /\ ~running
            /\ shutdownCalls = 1
            /\ awaited = 1
            /\ exc = "none")

C11_Witness ==
    /\ pc = "done"
    /\ autoscaler_state = "RUNNING"
    /\ ~running
    /\ intAt = {}
    /\ shutdownCalls = 1
    /\ awaited = 1
    /\ exc = "none"

\* C12: once a stage wait has failed (a FATAL instance, or an error that it
\* does not catch), run() is outside the try block for good: no start command
\* is issued afterwards, the next stage's start was never issued and the
\* steady-state loop never queried the main process.
C12_StageFailureAbortsSequence ==
    /\ []((wpc = "raised" /\ intAt \cap WaitPcs = {}) =>
            /\ pc \in {"finally", "final_wait", "done"}
            /\ exc # "none"
            /\ startMainCalls = 0
            /\ autoscaler_state = "none"
            /\ startGroupCalls = (IF process_name = "fetch_signals" THEN 0 ELSE 1))
    /\ [][wpc = "raised" =>
            /\ pc' \notin TryPcs
            /\ UNCHANGED <<startGroupCalls, startMainCalls, autoscaler_state, wfpVars>>]_vars

C12_Witness ==
    /\ pc = "done"
    /\ wpc = "raised"
    /\ exc = "Process run_signals could not start; aborting"
    /\ states = <<"RUNNING", "FATAL">>
    /\ startGroupCalls = 1
    /\ startMainCalls = 0

\* C13: a run that ends with the fatal-state error of a stage wait has called
\* shutdown() exactly once and has awaited the daemon's exit before raising.
C13_FatalShutsDownAwaitsThenRaises ==
    (/\ pc = "done"
     /\ intAt = {}
     /\ exc \in {"Process fetch_signals could not start; aborting",
                 "Process run_signals could not start; aborting"}) =>
        /\ shutdownCalls = 1
        /\ awaited = 1

(***************************************************************************)
(* The daemon never becomes reachable: every RPC (status query, start      *)
(* command, shutdown) raises OSError.  The steps of run() are taken sooner *)
(* or later (the interpreter keeps running: sleeps return, RPCs fail);     *)
(* interrupts and stop requests may or may not come.                       *)
(***************************************************************************)
UnreachableStartGroup == StartGroupError /\ exc' = "OSError"

UnreachableShutdown == FinallyShutdownError /\ exc' = "OSError"

UnreachableProgram ==
    \/ Spawn
    \/ PreSleep
    \/ WfpQueryOSError
    \/ WfpClassify
    \/ WfpSleep
    \/ UnreachableStartGroup
    \/ UnreachableShutdown
    \/ FinallySkip
    \/ FinalWait

UnreachableNext ==
    \/ UnreachableProgram
    \/ InterruptInTry
    \/ InterruptOutsideTry
    \/ StopRequested

SpecUnreachable == Init /\ [][UnreachableNext]_vars /\ WF_vars(UnreachableProgram)

\* C14 as stated: with the daemon unreachable forever, run() eventually leaves
\* the try block (gives up and goes to shutdown and cleanup).
C14_EventuallyGivesUp == <>(pc \in {"finally", "final_wait", "done"})

\* C14 amended: with the daemon unreachable and at least one fetch instance,
\* run() never gives up on its own: until an interrupt arrives it stays in the
\* wait for the fetch group, with no exception, no state ever received, no
\* start command and no shutdown issued.
C14_UnreachableDaemonRetriedForever ==
    (fetch_proc_count >= 1 /\ intAt = {}) =>
        /\ pc \in {"spawn", "presleep", "fetch_wait"}
        /\ exc = "none"
        /\ states = <<>>
        /\ startGroupCalls = 0
        /\ startMainCalls = 0
        /\ shutdownCalls = 0
        /\ (pc = "fetch_wait" => wpc \in {"poll", "sleep_err"})

C14_Witness ==
    /\ pc = "fetch_wait"
    /\ fetch_proc_count = 2
    /\ wpc = "sleep_err"
    /\ failedPolls >= 3
    /\ sleeps >= 3
    /\ intAt = {}
    /\ exc = "none"

(***************************************************************************)
(* The steps of run() and wait_for_process themselves: every one of them   *)
(* is a call that returns or raises, so whenever one is possible one is    *)
(* eventually taken.  What the daemon answers, interrupts and stop         *)
(* requests are under no fairness.                                         *)
(***************************************************************************)
Program ==
    \/ Spawn
    \/ PreSleep
    \/ WfpQueryOk
    \/ WfpQueryOSError
    \/ WfpQueryFault
    \/ WfpClassify
    \/ WfpSleep
    \/ StartGroup
    \/ StartGroupError
    \/ StartMain
    \/ StartMainError
    \/ LoopExitFlag
    \/ LoopQueryOk
    \/ LoopQueryError
    \/ LoopSleep
    \/ FinallyShutdown
    \/ FinallyShutdownError
    \/ FinallySkip
    \/ FinalWait

SpecFair == Init /\ [][Next]_vars /\ WF_vars(Program)

\* A step of a settled environment: no interrupt is delivered, and a status
\* query made by a wait is answered with the awaited terminal state.
SettledStep ==
    /\ intAt' = intAt
    /\ (pc \in WaitPcs /\ queried' # queried /\ queried' # <<>>) =>
          /\ states' = Append(states, terminal_state)
          /\ exc' = exc
          /\ wpc' = wpc

\* C15: a poll that fails with OSError, and a complete poll with no FATAL in
\* which some instance is not in the terminal state (EXITED under a RUNNING
\* target included), leave the wait sleeping, neither returned nor raised, and
\* the sleep is followed by another poll, however many polls were made; and if
\* from some point on no interrupt arrives and every query is answered with the
\* terminal state, no wait goes on forever.
C15_NoTimeoutAndEventualReturn ==
    /\ [][(/\ pc \in WaitPcs /\ wpc = "poll" /\ intAt' = intAt
           /\ \/ queried' # queried /\ states' = states /\ exc' # "Fault"
              \/ /\ i = num_procs /\ wpc' # wpc
                 /\ \A k \in 1..Len(states) : states[k] # "FATAL"
                 /\ \E k \in 1..Len(states) : states[k] # terminal_state) =>
            /\ pc' = pc
            /\ wpc' \in {"sleep", "sleep_err"}
            /\ exc' = "none"]_vars
    /\ [][(/\ pc \in WaitPcs /\ wpc \in {"sleep", "sleep_err"}
           /\ intAt' = intAt /\ wpc' # wpc) =>
            /\ pc' = pc
            /\ wpc' = "poll"
            /\ exc' = "none"]_vars
    /\ (<>[][SettledStep]_vars => []<>(pc \notin WaitPcs))

C15_Witness ==
    /\ pc = "run_wait"
    /\ wpc = "sleep"
    /\ states = <<"EXITED", "RUNNING">>
    /\ polls >= 3
    /\ sleeps >= 2
    /\ failedPolls >= 1
    /\ exc = "none"

\* C16: a loop check with self.running true whose query is answered goes on to
\* time.sleep(5) and another check exactly when the answer is STARTING or
\* RUNNING, and otherwise leaves the loop with no exception and the flag
\* unset; with self.running false the check leaves the loop; a run that left
\* the loop on EXITED, STOPPED, BACKOFF or FATAL (no interrupt, shutdown()
\* accepted) has called shutdown() once, awaited the daemon once and returned
\* without error, FATAL like the others.
C16_LoopPollsWhileRunningStates ==
    /\ [][(/\ pc = "loop_check" /\ running /\ intAt' = intAt
           /\ pc' # pc /\ exc' = "none") =>
            /\ pc' = IF autoscaler_state' \in {"STARTING", "RUNNING"}
                     THEN "loop_sleep" ELSE "finally"
            /\ ~skip_supervisord_cleanup'
            /\ UNCHANGED rpcVars]_vars
    /\ [][(pc = "loop_check" /\ ~running /\ intAt' = intAt /\ pc' # pc) =>
            pc' = "finally"]_vars
    /\ [][(pc = "loop_sleep" /\ intAt' = intAt /\ pc' # pc) =>
            pc' = "loop_check"]_vars
    /\ []((/\ pc = "done"
           /\ autoscaler_state \in {"EXITED", "STOPPED", "BACKOFF", "FATAL"}
           /\ intAt = {}
           /\ excAt # "finally") =>
            /\ shutdownCalls = 1
            /\ awaited = 1
            /\ exc = "none")

C16_Witness ==
    /\ pc = "done"
    /\ autoscaler_state = "FATAL"
    /\ running
    /\ shutdownCalls = 1
    /\ awaited = 1
    /\ exc = "none"

\* C17: within one poll the names queried so far are group:group_0,
\* group:group_1, ... in that order, one per index and never beyond
\* num_procs-1, the states collected are the answers to those queries, a poll
\* that was classified has queried every index exactly once, and each new poll
\* starts with no name queried and no state kept from the poll before.
C17_PollQueriesEachInstanceInOrder ==
    /\ [](/\ Len(queried) <= num_procs
          /\ \A k \in 1..Len(queried) :
               queried[k] = process_name \o ":" \o process_name \o "_" \o ToString(k - 1)
          /\ Len(states) = i
          /\ Len(states) <= Len(queried)
          /\ Len(queried) <= Len(states) + 1
          /\ (pc \in WaitPcs /\ wpc = "poll") => Len(queried) = Len(states)
          /\ (wpc \in {"sleep", "returned"}) =>
                (Len(queried) = num_procs /\ Len(states) = num_procs)
          /\ (pc = "fetch_wait" => process_name = "fetch_signals" /\ num_procs = fetch_proc_count)
          /\ (pc = "run_wait" => process_name = "run_signals" /\ num_procs = run_proc_count))
    /\ [][(wpc' = "poll" /\ wpc # "poll") =>
            (states' = <<>> /\ queried' = <<>> /\ i' = 0)]_vars

C17_Witness ==
    /\ pc = "run_wait"
    /\ wpc = "sleep"
    /\ polls >= 2
    /\ queried = <<"run_signals:run_signals_0", "run_signals:run_signals_1">>
    /\ states = <<"RUNNING", "STARTING">>

\* C18: a query that raises OSError sends the wait to sleep with no exception,
\* whatever was already answered in that poll (a FATAL included); after that
\* sleep the poll starts again at index 0 with an empty list; and whenever a
\* poll was classified (returned, pending sleep, bootstrap error) every one of
\* its num_procs queries had been answered.
C18_FailedQueryDiscardsPoll ==
    /\ [][(/\ pc \in WaitPcs /\ wpc = "poll"
           /\ queried' # queried /\ states' = states /\ exc' # "Fault") =>
            /\ pc' = pc
            /\ wpc' = "sleep_err"
            /\ exc' = "none"]_vars
    /\ [][(wpc = "sleep_err" /\ wpc' # wpc /\ intAt' = intAt) =>
            /\ pc' = pc
            /\ wpc' = "poll"
            /\ i' = 0
            /\ states' = <<>>
            /\ exc' = "none"]_vars
    /\ [](\/ wpc \in {"returned", "sleep"}
          \/ exc \in {"Process fetch_signals could not start; aborting",
                      "Process run_signals could not start; aborting"}
          => Len(states) = num_procs)

C18_Witness ==
    /\ pc = "fetch_wait"
    /\ wpc = "sleep_err"
    /\ num_procs = 2
    /\ states = <<"FATAL">>
    /\ Len(queried) = 2
    /\ exc = "none"

\* C19: once shutdown() has been issued run() is past the finally clause: no
\* start command, no status query and no second shutdown follows; what is left
\* is the wait for the daemon's exit.
C19_ShutdownIsLastRpc ==
    /\ [](shutdownCalls >= 1 => pc \in {"final_wait", "done"})
    /\ [][shutdownCalls >= 1 =>
            /\ pc' \in {"final_wait", "done"}
            /\ UNCHANGED <<startGroupCalls, startMainCalls, shutdownCalls,
                           queried, states, autoscaler_state>>]_vars

C19_Witness ==
    /\ pc = "done"
    /\ shutdownCalls = 1
    /\ startGroupCalls = 1
    /\ startMainCalls = 1
    /\ autoscaler_state = "EXITED"
    /\ awaited = 1

\* C20: a wait called with num_procs = 0 is, while it lasts, in its first poll
\* with no name queried and no sleep made, its next step returns to the next
\* stage without error, and it never raises.
C20_ZeroInstancesReturnsAtOnce ==
    /\ []((pc \in WaitPcs /\ num_procs = 0) =>
            /\ wpc = "poll"
            /\ polls = 1
            /\ sleeps = 0
            /\ failedPolls = 0
            /\ queried = <<>>
            /\ states = <<>>
            /\ exc = "none")
    /\ [][(pc \in WaitPcs /\ num_procs = 0 /\ wpc' # wpc /\ intAt' = intAt) =>
            /\ wpc' = "returned"
            /\ pc' = IF pc = "fetch_wait" THEN "start_group" ELSE "start_main"
            /\ exc' = "none"
            /\ UNCHANGED <<polls, sleeps, queried>>]_vars
    /\ []((num_procs = 0 /\ wpc = "raised") => intAt \cap WaitPcs # {})

C20_Witness ==
    /\ pc = "start_main"
    /\ fetch_proc_count = 0
    /\ run_proc_count = 0
    /\ wpc = "returned"
    /\ polls = 1
    /\ sleeps = 0
    /\ queried = <<>>

====
